---- MODULE Spec2Model ----
(***************************************************************************)
(* Atmeex cloud integration: the data coordinator's reconciliation pass    *)
(* (custom_components/atmeex_cloud/__init__.py), the raw-data parser        *)
(* (device_parser.py) and the entity adapters' coordinator-update handlers *)
(* (climate.py, fan.py, switch.py, number.py, select.py, sensor.py,        *)
(* binary_sensor.py).                                                      *)
(*                                                                         *)
(* Representation.                                                         *)
(*  - A JSON object / Python dict is [val |-> f, nul |-> S]: f maps the    *)
(*    keys that carry a non-null value to that value, S is the set of keys *)
(*    that are present with the value None.  "k not in d or d[k] is None"  *)
(*    is  k \notin DOMAIN d.val.                                           *)
(*  - An Optional attribute of a parsed model or of an entity is a set:    *)
(*    {} is None, {v} is the value v.                                      *)
(*  - A float number of degrees is [whole, tenth] (floor and first         *)
(*    decimal); the encodings the code divides are integers of tenths.     *)
(***************************************************************************)
EXTENDS Integers, Sequences, FiniteSets, TLC

\* ------------------------------------------------------------------ bounds
MaxDevices == 2          \* longest device listing the cloud returns

DeviceIds == 1..MaxDevices   \* device ids of the account
Tokens == {"t1", "t2"}   \* token strings the client may hold
TokenPairs == Tokens \X Tokens

\* ------------------------------------------------------- dict primitives
Dict(v, n) == [val |-> v, nul |-> n]

EmptyMap == [k \in {} |-> 0]

Keys(d) == DOMAIN d.val \cup d.nul

HasVal(d, k) == k \in DOMAIN d.val

IsNone(d, k) == k \in d.nul

Truthy(d, k) == HasVal(d, k) /\ Keys(d.val[k]) # {}

SetItem(d, k, v) ==
    [val |-> [x \in DOMAIN d.val \cup {k} |-> IF x = k THEN v ELSE d.val[x]],
     nul |-> d.nul \ {k}]

SetNone(d, k) ==
    [val |-> [x \in DOMAIN d.val \ {k} |-> d.val[x]],
     nul |-> d.nul \cup {k}]

\* for field, default in defaults.items():
\*     if field not in d or d[field] is None: d[field] = default
FillDefaults(d, defaults) ==
    [val |-> [k \in DOMAIN d.val \cup DOMAIN defaults |->
                 IF k \in DOMAIN d.val THEN d.val[k] ELSE defaults[k]],
     nul |-> d.nul \ DOMAIN defaults]

\* ------------------------------------------------------ device_parser.py
required_fields ==
    [id |-> 0, mac |-> "", type |-> 1, name |-> "Unknown Device",
     room_id |-> 0, owner_id |-> 0, created_at |-> "", socket_id |-> "",
     fw_ver |-> "", model |-> "A7", online |-> FALSE]

required_settings_fields(device_id) ==
    [id |-> 0, device_id |-> device_id, u_pwr_on |-> FALSE,
     u_fan_speed |-> 0, u_damp_pos |-> 2, u_temp_room |-> 0,
     u_cool_mode |-> FALSE, u_hum_stg |-> 0, u_auto |-> FALSE,
     u_night |-> FALSE]

optional_settings_fields == {"u_night_start", "u_night_stop", "u_time_zone"}

numeric_fields ==
    {"co2_ppm", "temp_room", "temp_in", "hum_room", "hum_stg",
     "fan_speed", "damp_pos", "pwr_on", "no_water"}

\* lines 45-108: the settings object of the fixed entry
FixSettings(fixed) ==
    LET defaults == required_settings_fields(fixed.val.id)
    IN IF ~Truthy(fixed, "settings")
       THEN Dict(defaults, {})
       ELSE LET s == FillDefaults(fixed.val.settings, defaults)
            IN [val |-> s.val,
                nul |-> s.nul \cup (optional_settings_fields \ DOMAIN s.val)]

\* lines 112-125: the condition object of the fixed entry
FixCondition(fixed) ==
    IF Truthy(fixed, "condition")
    THEN LET c == fixed.val.condition
             z == c.nul \cap numeric_fields
         IN SetItem(fixed, "condition",
                [val |-> [k \in DOMAIN c.val \cup z |->
                             IF k \in DOMAIN c.val THEN c.val[k] ELSE 0],
                 nul |-> c.nul \ z])
    ELSE SetNone(fixed, "condition")

fix_device_data_for_parsing(device_data) ==
    LET f1 == FillDefaults(device_data, required_fields)
        f2 == SetItem(f1, "settings", FixSettings(f1))
    IN FixCondition(f2)

\* a variable bound to the very dict it was given, where lines 21, 61 and
\* 113 take a copy
dict_alias(obj) == obj

\* lines 21, 61, 113: dict.copy() gives a new object, told from the one it
\* was taken from by its generation
dict_copy(obj) == [obj EXCEPT !.gen = obj.gen + 1]

\* the caller's dict after the call: each of its three objects (the entry,
\* its settings, its condition) holds what the function wrote into it, that
\* is the fixed content if the function's variable is bound to the object
\* itself and the original content if it is bound to a copy
device_data_after(device_data) ==
    LET fixed == fix_device_data_for_parsing(device_data)
        Same(name) == LET obj == [name |-> name, gen |-> 0]
                      IN dict_copy(obj) = obj
        top == IF Same("device_data") THEN fixed ELSE device_data
        st  == IF Truthy(device_data, "settings") /\ Same("settings")
               THEN fixed.val.settings ELSE device_data.val.settings
        co  == IF Truthy(device_data, "condition") /\ Same("condition")
               THEN fixed.val.condition ELSE device_data.val.condition
        t1  == IF Truthy(device_data, "settings") /\ ~Same("device_data")
               THEN SetItem(top, "settings", st) ELSE top
    IN IF Truthy(device_data, "condition") /\ ~Same("device_data")
       THEN SetItem(t1, "condition", co) ELSE t1

\* ------------------------------------------ atmeexpy models (as consumed)
SettingsFields ==
    {"u_pwr_on", "u_fan_speed", "u_damp_pos", "u_temp_room", "u_cool_mode",
     "u_hum_stg", "u_auto", "u_night"}

\* device_parser.py:24 "DeviceModel требует: id, mac, type, name, room_id,
\* owner_id, created_at, socket_id, fw_ver, model, online, settings"
ModelRequired == DOMAIN required_fields \cup {"settings"}

\* device_parser.py:64 and 93-94: every settings field must carry a value of
\* its type, None is rejected by the library
SettingsRequired == DOMAIN required_settings_fields(0)

ConditionFields == numeric_fields \cup {"firmware_version"}

\* the attributes of a DeviceConditionModel built from the payload c
ConditionModel(c) ==
    [val |-> [k \in ConditionFields \cap DOMAIN c.val |-> c.val[k]],
     nul |-> ConditionFields \ DOMAIN c.val]

\* the attributes of a DeviceSettingsModel built from the payload st
SettingsModel(st) ==
    [val |-> [k \in SettingsFields \cap DOMAIN st.val |-> st.val[k]],
     nul |-> SettingsFields \ DOMAIN st.val]

\* device_parser.py:115 "Исправляем числовые поля, которые могут быть None":
\* DeviceConditionModel.fromdict; ok is FALSE where the library raises
DeviceConditionModel_fromdict(c) ==
    IF numeric_fields \subseteq DOMAIN c.val /\ HasVal(c, "firmware_version")
    THEN [ok |-> TRUE, model |-> ConditionModel(c)]
    ELSE [ok |-> FALSE, model |-> EmptyMap]

\* DeviceModel.fromdict: ok is FALSE where the library raises
DeviceModel_fromdict(d) ==
    LET top_ok == ModelRequired \subseteq DOMAIN d.val
        set_ok == top_ok /\ SettingsRequired \subseteq DOMAIN d.val.settings.val
        cond   == IF HasVal(d, "condition")
                  THEN DeviceConditionModel_fromdict(d.val.condition)
                  ELSE [ok |-> TRUE, model |-> EmptyMap]
    IN IF set_ok /\ cond.ok
       THEN [ok |-> TRUE,
             model |-> [id |-> d.val.id,
                        name |-> d.val.name,
                        fw_ver |-> d.val.fw_ver,
                        online |-> {d.val.online},
                        settings |-> SettingsModel(d.val.settings),
                        condition |-> IF HasVal(d, "condition")
                                      THEN {cond.model} ELSE {}]]
       ELSE [ok |-> FALSE, model |-> EmptyMap]

\* Alternative path of parse_devices_from_raw_data: fix once more, parse again
create_device_manually(device_data) ==
    DeviceModel_fromdict(fix_device_data_for_parsing(device_data))

\* one entry of parse_devices_from_raw_data: <<device>> or <<>> (entry dropped)
ParseRawEntry(device_data) ==
    LET fixed == fix_device_data_for_parsing(device_data)
        m     == DeviceModel_fromdict(fixed)
        alt   == create_device_manually(fixed)
    IN IF m.ok THEN <<m.model>>
       ELSE IF alt.ok THEN <<alt.model>> ELSE <<>>

RECURSIVE parse_devices_from_raw_data(_)
parse_devices_from_raw_data(raw_devices_data) ==
    IF raw_devices_data = <<>> THEN <<>>
    ELSE ParseRawEntry(Head(raw_devices_data))
         \o parse_devices_from_raw_data(Tail(raw_devices_data))

\* ------------------------------------------------- the cloud's payloads
TopLevel(id) ==
    [id |-> id, mac |-> "aa:bb", type |-> 1, name |-> "Breezer",
     room_id |-> 1, owner_id |-> 1, created_at |-> "2024", socket_id |-> "s",
     fw_ver |-> "fw1", model |-> "A7", online |-> FALSE]

SettingsHeat(id) ==
    [id |-> 7, device_id |-> id, u_pwr_on |-> TRUE, u_fan_speed |-> 2,
     u_damp_pos |-> 0, u_temp_room |-> 215, u_cool_mode |-> FALSE,
     u_hum_stg |-> 40, u_auto |-> TRUE, u_night |-> FALSE]

SettingsFan(id) ==
    [id |-> 7, device_id |-> id, u_pwr_on |-> TRUE, u_fan_speed |-> 6,
     u_damp_pos |-> 1, u_temp_room |-> -1000, u_cool_mode |-> TRUE,
     u_hum_stg |-> 0, u_auto |-> FALSE, u_night |-> TRUE]

SettingsOff(id) ==
    [id |-> 7, device_id |-> id, u_pwr_on |-> FALSE, u_fan_speed |-> 0,
     u_damp_pos |-> 2, u_temp_room |-> 0, u_cool_mode |-> FALSE,
     u_hum_stg |-> 55, u_auto |-> FALSE, u_night |-> FALSE]

ConditionLive ==
    [co2_ppm |-> 800, temp_room |-> 215, temp_in |-> -35, hum_room |-> 40,
     hum_stg |-> 45, fan_speed |-> 2, damp_pos |-> 0, pwr_on |-> 1,
     no_water |-> 1, firmware_version |-> "fw2"]

\* a live condition whose CO2 and no-water readings arrive as null
ConditionNulls ==
    Dict([k \in DOMAIN ConditionLive \ {"co2_ppm", "no_water"} |-> ConditionLive[k]],
         {"co2_ppm", "no_water"})

Without(f, ks) == [k \in DOMAIN f \ ks |-> f[k]]

With(f, k, v) == [x \in DOMAIN f \cup {k} |-> IF x = k THEN v ELSE f[x]]

\* listing entries as the cloud sends them, well-formed and not
RawEntries(id) ==
    LET top == TopLevel(id)
        S(s) == Dict(s, {})
    IN { \* well-formed, no live condition
         Dict(With(top, "settings", S(SettingsHeat(id))), {"condition"}),
         Dict(With(top, "settings", S(SettingsOff(id))), {"condition"}),
         \* well-formed with a live condition
         Dict(With(With(top, "settings", S(SettingsFan(id))),
                   "condition", Dict(ConditionLive, {})), {}),
         \* settings carry null u_auto and u_hum_stg
         Dict(With(top, "settings",
                   Dict(Without(SettingsHeat(id), {"u_auto", "u_hum_stg"}),
                        {"u_auto", "u_hum_stg"})), {"condition"}),
         \* no settings object at all, name is null
         Dict(With(Without(top, {"name"}), "condition", Dict(ConditionLive, {})),
              {"name"}),
         \* condition carries null numeric readings
         Dict(With(With(top, "settings", S(SettingsOff(id))),
                   "condition", ConditionNulls), {}) }

AllRawEntries == UNION {RawEntries(id) : id \in DeviceIds}

WellFormed(e) == DeviceModel_fromdict(e).ok

DistinctIds(s) ==
    \A i, j \in DOMAIN s : i # j => s[i].val.id # s[j].val.id

\* the listings the endpoint may return: at most MaxDevices entries, one per id
Listings(entries) ==
    {s \in UNION {[1..n -> entries] : n \in 0..MaxDevices} : DistinctIds(s)}

\* the single-device endpoint's response: the call raises, answers with a
\* non-200 status, or answers 200 with a body
Bodies ==
    {Dict(EmptyMap, {}),
     Dict(EmptyMap, {"condition"}),
     Dict([online |-> TRUE], {"condition"}),
     Dict([condition |-> Dict(ConditionLive, {})], {}),
     Dict([condition |-> Dict(ConditionLive, {})], {"online"}),
     Dict([condition |-> Dict(ConditionLive, {}), online |-> TRUE], {}),
     Dict([condition |-> ConditionNulls, online |-> TRUE], {})}

Responses ==
    {[kind |-> "raise", status |-> 0, body |-> Dict(EmptyMap, {})],
     [kind |-> "answer", status |-> 500, body |-> Dict(EmptyMap, {})]}
    \cup {[kind |-> "answer", status |-> 200, body |-> b] : b \in Bodies}

\* ------------------------------------------------------------------ state
VARIABLES
    devices,              \* AtmeexDataCoordinator.devices
    entry_data,           \* <<access, refresh>> held in ConfigEntry.data
    api_auth,             \* <<access, refresh>> held by AtmeexClient.auth
    last_update_success,  \* DataUpdateCoordinator.last_update_success
    pc,                   \* position of the running _async_update_data
    idx,                  \* position of the "for device in self.devices" loop
    pass,                 \* what the running pass has received and done so far
    setup_done,           \* the platforms have created their entities
    ent,                  \* the entities of each device id
    cmd,                  \* the last entity service call and what it did
    flow                  \* the config flow's submission in progress

coordVars == <<devices, entry_data, api_auth, last_update_success, pc, idx, pass>>
entVars == <<setup_done, ent>>
cmdVars == <<cmd>>
flowVars == <<flow>>
vars == <<devices, entry_data, api_auth, last_update_success, pc, idx, pass,
          setup_done, ent, cmd, flow>>

NoPass ==
    [lib |-> "none", raw |-> "none", upstream |-> <<>>, base |-> <<>>,
     resp |-> EmptyMap, writes |-> 0, token_step |-> FALSE]

NoEntity == [exists |-> FALSE]

\* ------------------------------------ __init__.py: _async_update_data
AfterListing(devs) == IF Len(devs) = 0 THEN "tokens" ELSE "fetch"

\* the except branch of line 102 keeping the entry it could not validate
RECURSIVE ParsedDevices_keep(_)
ParsedDevices_keep(raw_devices_data) ==
    IF raw_devices_data = <<>> THEN <<>>
    ELSE LET d == Head(raw_devices_data)
             m == DeviceModel_fromdict(d)
         IN (IF m.ok THEN <<m.model>>
             ELSE IF ModelRequired \subseteq DOMAIN d.val
                  THEN <<[id |-> d.val.id, name |-> d.val.name,
                          fw_ver |-> d.val.fw_ver, online |-> {d.val.online},
                          settings |-> SettingsModel(d.val.settings),
                          condition |-> {}]>>
                  ELSE <<>>)
            \o ParsedDevices_keep(Tail(raw_devices_data))

\* lines 91-105: DeviceModel.fromdict per raw entry, failures are skipped
RECURSIVE ParsedDevices(_)
ParsedDevices(raw_devices_data) ==
    IF raw_devices_data = <<>> THEN <<>>
    ELSE LET m == DeviceModel_fromdict(Head(raw_devices_data))
         IN (IF m.ok THEN <<m.model>> ELSE <<>>)
            \o ParsedDevices(Tail(raw_devices_data))

\* line 54 assigning only a non-empty result: the list of the previous pass
\* survives a listing of no devices
StartRefresh_keep(listings) ==
    /\ pc = "idle"
    /\ \/ /\ pc' = IF last_update_success THEN "notify" ELSE "idle"
          /\ last_update_success' = FALSE
          /\ pass' = IF last_update_success
                     THEN [NoPass EXCEPT !.lib = "raise"] ELSE NoPass
          /\ UNCHANGED <<devices, idx>>
       \/ \E up \in listings :
             /\ Len(up) > 0
             /\ \A i \in DOMAIN up : WellFormed(up[i])
             /\ devices' = [i \in DOMAIN up |-> DeviceModel_fromdict(up[i]).model]
             /\ pass' = [NoPass EXCEPT !.lib = "ok", !.upstream = up,
                                       !.base = devices']
             /\ pc' = "fetch"
             /\ idx' = 1
             /\ UNCHANGED last_update_success
       \/ /\ UNCHANGED devices
          /\ pass' = [NoPass EXCEPT !.lib = "empty"]
          /\ pc' = "raw"
          /\ UNCHANGED <<idx, last_update_success>>
    /\ UNCHANGED <<entry_data, api_auth, entVars, cmdVars, flowVars>>

\* line 54: self.devices = await self.api.get_devices().  The call raises,
\* returns the parsed listing, or returns no devices.
StartRefresh(listings) ==
    /\ pc = "idle"
    /\ \/ /\ pc' = IF last_update_success THEN "notify" ELSE "idle"
          /\ last_update_success' = FALSE
          /\ pass' = IF last_update_success
                     THEN [NoPass EXCEPT !.lib = "raise"] ELSE NoPass
          /\ UNCHANGED <<devices, idx>>
       \/ \E up \in listings :
             /\ Len(up) > 0
             /\ \A i \in DOMAIN up : WellFormed(up[i])
             /\ devices' = [i \in DOMAIN up |-> DeviceModel_fromdict(up[i]).model]
             /\ pass' = [NoPass EXCEPT !.lib = "ok", !.upstream = up,
                                       !.base = devices']
             /\ pc' = "fetch"
             /\ idx' = 1
             /\ UNCHANGED last_update_success
       \/ /\ devices' = <<>>
          /\ pass' = [NoPass EXCEPT !.lib = "empty"]
          /\ pc' = "raw"
          /\ UNCHANGED <<idx, last_update_success>>
    /\ UNCHANGED <<entry_data, api_auth, entVars, cmdVars, flowVars>>

\* lines 62-121: device_count == 0, one raw GET /devices
RawRefetch(listings) ==
    /\ pc = "raw"
    /\ \/ /\ pass' = [pass EXCEPT !.raw = "fail"]
          /\ UNCHANGED devices
       \/ \E raw_devices_data \in listings :
             LET parsed_devices == ParsedDevices(raw_devices_data)
             IN /\ devices' = IF parsed_devices # <<>> THEN parsed_devices
                              ELSE devices
                /\ pass' = [pass EXCEPT !.raw = "ok",
                                        !.upstream = raw_devices_data,
                                        !.base = devices']
    /\ pc' = AfterListing(devices')
    /\ idx' = 1
    /\ UNCHANGED <<entry_data, api_auth, last_update_success, entVars, cmdVars, flowVars>>

\* lines 139-159: what one GET /devices/{id} response does to the device
ApplyResponse(device, r) ==
    IF r.kind = "raise" \/ r.status # 200 THEN device
    ELSE LET device_data == r.body
             cm == IF Truthy(device_data, "condition")
                   THEN DeviceConditionModel_fromdict(device_data.val.condition)
                   ELSE [ok |-> TRUE, model |-> EmptyMap]
             d1 == IF Truthy(device_data, "condition")
                   THEN [device EXCEPT !.condition = {cm.model}] ELSE device
         IN IF ~cm.ok THEN device
            ELSE IF "online" \in Keys(device_data)
                 THEN [d1 EXCEPT !.online =
                          IF HasVal(device_data, "online")
                          THEN {device_data.val.online} ELSE {}]
                 ELSE d1

IsFailure(r) == r.kind = "raise" \/ r.status # 200

\* the loop without the try/except of lines 137-159: a failed fetch ends the pass
SupplementaryFetch_abort(responses) ==
    /\ pc = "fetch"
    /\ idx <= Len(devices)
    /\ LET device == devices[idx]
       IN IF device.condition = {}
          THEN \E r \in responses :
                  /\ devices' = [devices EXCEPT ![idx] = ApplyResponse(device, r)]
                  /\ pass' = [pass EXCEPT !.resp = device.id :> r @@ pass.resp]
                  /\ pc' = IF IsFailure(r) THEN "notify"
                           ELSE IF idx + 1 > Len(devices) THEN "tokens" ELSE "fetch"
                  /\ last_update_success' = ~IsFailure(r) /\ last_update_success
          ELSE /\ UNCHANGED <<devices, pass, last_update_success>>
               /\ pc' = IF idx + 1 > Len(devices) THEN "tokens" ELSE "fetch"
    /\ idx' = idx + 1
    /\ UNCHANGED <<entry_data, api_auth, entVars, cmdVars, flowVars>>

\* lines 124-174: one turn of the loop; the atmeexpy Device has none of the
\* refresh/update/get_info methods probed at line 162
SupplementaryFetch(responses) ==
    /\ pc = "fetch"
    /\ idx <= Len(devices)
    /\ LET device == devices[idx]
       IN IF device.condition = {}
          THEN \E r \in responses :
                  /\ devices' = [devices EXCEPT ![idx] = ApplyResponse(device, r)]
                  /\ pass' = [pass EXCEPT !.resp = device.id :> r @@ pass.resp]
          ELSE UNCHANGED <<devices, pass>>
    /\ idx' = idx + 1
    /\ pc' = IF idx + 1 > Len(devices) THEN "tokens" ELSE "fetch"
    /\ UNCHANGED <<entry_data, api_auth, last_update_success, entVars, cmdVars, flowVars>>

\* the comparison with "and" in place of "or"
TokensDiffer_both(entry, auth) == entry[1] # auth[1] /\ entry[2] # auth[2]

\* lines 244-245
TokensDiffer(entry, auth) == entry[1] # auth[1] \/ entry[2] # auth[2]

\* lines 244-274: config_entries.async_update_entry is a plain callback, the
\* direct call of line 264 stores the pair
PersistTokens ==
    /\ pc = "tokens"
    /\ IF TokensDiffer(entry_data, api_auth)
       THEN /\ entry_data' = api_auth
            /\ pass' = [pass EXCEPT !.writes = @ + 1, !.token_step = TRUE]
       ELSE /\ UNCHANGED entry_data
            /\ pass' = [pass EXCEPT !.token_step = TRUE]
    /\ pc' = "notify"
    /\ last_update_success' = TRUE
    /\ UNCHANGED <<devices, api_auth, idx, entVars, cmdVars, flowVars>>

\* AtmeexClient.auth obtains a new token pair during one of its HTTP calls
TokenRotation ==
    /\ \E p \in TokenPairs \ {api_auth} : api_auth' = p
    /\ UNCHANGED <<devices, entry_data, last_update_success, pc, idx, pass, entVars, cmdVars, flowVars>>

\* ------------------------------------------------------ entity adapters
\* x / 10.0 and float(x)
DivTen(x) == [whole |-> x \div 10, tenth |-> x % 10]

Float(x) == [whole |-> x, tenth |-> 0]

HEATER_DISABLE_TEMP == -1000

TelemetryKinds ==
    {"co2", "temperature", "temperature_in", "humidity",
     "humidity_target_sensor", "fan_speed", "damper_position",
     "firmware_version"}

ControlKinds ==
    {"climate", "fan", "auto_mode", "night_mode", "cool_mode",
     "humidity_target", "ventilation_mode"}

\* binary_sensor.py:24-28: the no-water sensor is created only for a device
\* whose condition is present at platform setup
KindsFor(device) ==
    ControlKinds \cup TelemetryKinds \cup {"online"}
    \cup (IF device.condition # {} THEN {"no_water"} ELSE {})

Condition(device) == (CHOOSE c \in device.condition : TRUE).val

\* select.py:144-158
VentilationOption(damp_pos, fan_speed) ==
    IF damp_pos = 0 /\ fan_speed = 0 THEN "supply_valve"
    ELSE IF damp_pos = 2 THEN "recirculation"
    ELSE IF damp_pos = 1 THEN "mixed"
    ELSE "supply_ventilation"

\* sensor.py:380-391
PositionMap(damp_pos) ==
    IF damp_pos = 0 THEN "Open"
    ELSE IF damp_pos = 1 THEN "Mixed"
    ELSE IF damp_pos = 2 THEN "Closed" ELSE "Unknown"

\* fan.py:130  int((fan_speed + 1) * 16.67)
SpeedToPercentage(fan_speed) == ((fan_speed + 1) * 1667) \div 100

\* the climate entity with HVACMode.OFF still among its modes: a device that
\* is switched off is shown as OFF
climate_update_state_off(device) ==
    LET st == device.settings.val
    IN IF ~st.u_pwr_on
       THEN [available |-> FALSE, hvac_mode |-> "off",
             fan_mode |-> "1", target_temperature |-> {}]
       ELSE IF st.u_temp_room > 0
       THEN [available |-> TRUE, hvac_mode |-> "heat",
             fan_mode |-> ToString(st.u_fan_speed + 1),
             target_temperature |-> {DivTen(st.u_temp_room)}]
       ELSE [available |-> TRUE, hvac_mode |-> "fan_only",
             fan_mode |-> ToString(st.u_fan_speed + 1),
             target_temperature |-> {}]

\* climate.py:173-198  AtmeexClimateEntity._update_state
climate_update_state(device) ==
    LET st == device.settings.val
    IN IF ~st.u_pwr_on
       THEN [available |-> FALSE, hvac_mode |-> "fan_only",
             fan_mode |-> "1", target_temperature |-> {}]
       ELSE IF st.u_temp_room = HEATER_DISABLE_TEMP
       THEN [available |-> TRUE, hvac_mode |-> "fan_only",
             fan_mode |-> ToString(st.u_fan_speed + 1),
             target_temperature |-> {}]
       ELSE IF st.u_temp_room > 0
       THEN [available |-> TRUE, hvac_mode |-> "heat",
             fan_mode |-> ToString(st.u_fan_speed + 1),
             target_temperature |-> {DivTen(st.u_temp_room)}]
       ELSE [available |-> TRUE, hvac_mode |-> "fan_only",
             fan_mode |-> ToString(st.u_fan_speed + 1),
             target_temperature |-> {}]

\* fan.py:122-131  AtmeexFanEntity._update_state: _attr_available is not
\* assigned, it keeps the value it had
fan_update_state(device, old) ==
    LET st == device.settings.val
        is_on == st.u_pwr_on /\ st.u_temp_room = HEATER_DISABLE_TEMP
    IN [available |-> old.available, is_on |-> is_on,
        percentage |-> IF is_on THEN SpeedToPercentage(st.u_fan_speed) ELSE 0]

\* switch.py:121-123, 172-174, 223-225  _update_state of the three switches
switch_update_state(kind, device) ==
    LET st == device.settings.val
    IN [available |-> TRUE,
        is_on |-> CASE kind = "auto_mode" -> st.u_auto
                    [] kind = "night_mode" -> st.u_night
                    [] kind = "cool_mode" -> st.u_cool_mode]

\* number.py:78-80  AtmeexHumidityTargetNumberEntity._update_state
number_update_state(device) ==
    [available |-> TRUE, native_value |-> Float(device.settings.val.u_hum_stg)]

\* the selector without the branch of lines 134-137: the option is derived
\* for a device that is switched off as well
select_update_state_unpowered(device) ==
    LET st == device.settings.val
    IN [available |-> TRUE,
        current_option |-> {VentilationOption(st.u_damp_pos, st.u_fan_speed)}]

\* select.py:131-160  AtmeexVentilationModeSelectEntity._update_state
select_update_state(device) ==
    LET st == device.settings.val
    IN IF ~st.u_pwr_on
       THEN [available |-> FALSE, current_option |-> {}]
       ELSE [available |-> TRUE,
             current_option |-> {VentilationOption(st.u_damp_pos, st.u_fan_speed)}]

\* getattr(condition, field, None) of a present condition
Reading(device, field) ==
    IF field \in DOMAIN Condition(device) THEN {Condition(device)[field]} ELSE {}

\* sensor.py:75-88, 128-142, 182-196, 236-249: the sensors that show a
\* reading of the condition
reading_update_state(device, field, tenths) ==
    LET value == IF device.condition # {} THEN Reading(device, field) ELSE {}
    IN IF value # {}
       THEN [available |-> TRUE,
             native_value |-> {IF tenths THEN DivTen(v) ELSE v : v \in value}]
       ELSE [available |-> FALSE, native_value |-> {}]

\* the telemetry sensors without a fallback to the settings: each
\* unavailable whenever the condition is absent
sensor_update_state_no_fallback(kind, device) ==
    IF device.condition = {}
    THEN [available |-> FALSE, native_value |-> {}]
    ELSE CASE kind = "co2" -> reading_update_state(device, "co2_ppm", FALSE)
           [] kind = "temperature" -> reading_update_state(device, "temp_room", TRUE)
           [] kind = "temperature_in" -> reading_update_state(device, "temp_in", TRUE)
           [] kind = "humidity" -> reading_update_state(device, "hum_room", FALSE)
           [] kind = "humidity_target_sensor" ->
                [available |-> TRUE, native_value |-> {Condition(device).hum_stg}]
           [] kind = "fan_speed" ->
                [available |-> TRUE, native_value |-> {Condition(device).fan_speed + 1}]
           [] kind = "damper_position" ->
                [available |-> TRUE,
                 native_value |-> {PositionMap(Condition(device).damp_pos)}]
           [] kind = "firmware_version" ->
                [available |-> TRUE,
                 native_value |-> {Condition(device).firmware_version}]

\* sensor.py  _update_state of the eight sensors
sensor_update_state(kind, device) ==
    LET st == device.settings.val
        has_condition == device.condition # {}
    IN CASE kind = "co2" -> reading_update_state(device, "co2_ppm", FALSE)
         [] kind = "temperature" -> reading_update_state(device, "temp_room", TRUE)
         [] kind = "temperature_in" -> reading_update_state(device, "temp_in", TRUE)
         [] kind = "humidity" -> reading_update_state(device, "hum_room", FALSE)
         [] kind = "humidity_target_sensor" ->
              [available |-> TRUE,
               native_value |-> {IF has_condition THEN Condition(device).hum_stg
                                 ELSE st.u_hum_stg}]
         [] kind = "fan_speed" ->
              [available |-> TRUE,
               native_value |-> {IF has_condition
                                 THEN Condition(device).fan_speed + 1
                                 ELSE st.u_fan_speed + 1}]
         [] kind = "damper_position" ->
              [available |-> TRUE,
               native_value |-> {PositionMap(IF has_condition
                                             THEN Condition(device).damp_pos
                                             ELSE st.u_damp_pos)}]
         [] kind = "firmware_version" ->
              [available |-> TRUE,
               native_value |-> {IF has_condition
                                 THEN Condition(device).firmware_version
                                 ELSE device.fw_ver}]

\* binary_sensor.py:68-75, 113-116  _update_state of the two binary sensors
binary_sensor_update_state(kind, device) ==
    IF kind = "online"
    THEN [available |-> TRUE, is_on |-> {device.online = {TRUE}}]
    ELSE IF device.condition # {}
    THEN [available |-> TRUE, is_on |-> {Condition(device).no_water = 1}]
    ELSE [available |-> FALSE, is_on |-> {}]

\* <Kind>._update_state: the entity attributes after the call; old holds the
\* attributes before it
update_state(kind, device, old) ==
    CASE kind = "climate" -> climate_update_state(device)
      [] kind = "fan" -> fan_update_state(device, old)
      [] kind \in {"auto_mode", "night_mode", "cool_mode"} ->
           switch_update_state(kind, device)
      [] kind = "humidity_target" -> number_update_state(device)
      [] kind = "ventilation_mode" -> select_update_state(device)
      [] kind \in TelemetryKinds -> sensor_update_state(kind, device)
      [] kind \in {"no_water", "online"} -> binary_sensor_update_state(kind, device)

\* Entity._attr_available before the first _update_state
InitialAttrs == [available |-> TRUE]

\* <Kind>.__init__ of every entity of one device: bind, then _update_state;
\* updated tells whether the last call of the entities ran _update_state
NewEntities(device) ==
    [exists |-> TRUE,
     device |-> device,
     attrs  |-> [k \in KindsFor(device) |-> update_state(k, device, InitialAttrs)],
     updated |-> TRUE]

\* same_devices = [d for d in self.coordinator.devices if d.model.id == device_id]
same_devices(devs, device_id) ==
    SelectSeq(devs, LAMBDA d : d.id = device_id)

\* the handler without its "len(same_devices) == 0" branch: _update_state
\* runs on the record the entity still holds
handle_coordinator_update_always(e, devs) ==
    LET found == same_devices(devs, e.device.id)
        device == IF Len(found) = 0 THEN e.device ELSE found[1]
    IN [e EXCEPT !.device = device,
                 !.attrs = [k \in DOMAIN e.attrs |->
                               update_state(k, device, e.attrs[k])],
                 !.updated = TRUE]

\* <Kind>._handle_coordinator_update, for every entity of one device
handle_coordinator_update(e, devs) ==
    LET found == same_devices(devs, e.device.id)
    IN IF Len(found) = 0
       THEN [e EXCEPT !.attrs = [k \in DOMAIN e.attrs |->
                                    [e.attrs[k] EXCEPT !.available = FALSE]],
                      !.updated = FALSE]
       ELSE [e EXCEPT !.device = found[1],
                      !.attrs = [k \in DOMAIN e.attrs |->
                                    update_state(k, found[1], e.attrs[k])],
                      !.updated = TRUE]

\* async_setup_entry of the platforms: one set of entities per device of the
\* coordinator's list
SetupPlatforms ==
    /\ pc = "idle"
    /\ ~setup_done
    /\ setup_done' = TRUE
    /\ ent' = [id \in DeviceIds |->
                 LET found == same_devices(devices, id)
                 IN IF Len(found) = 0 THEN NoEntity ELSE NewEntities(found[1])]
    /\ UNCHANGED <<coordVars, cmdVars, flowVars>>

\* DataUpdateCoordinator.async_update_listeners: the pass is over, every
\* registered entity's _handle_coordinator_update runs
Notify ==
    /\ pc = "notify"
    /\ pc' = "idle"
    /\ pass' = NoPass
    /\ ent' = [id \in DeviceIds |->
                 IF ent[id].exists THEN handle_coordinator_update(ent[id], devices)
                 ELSE ent[id]]
    /\ UNCHANGED <<devices, entry_data, api_auth, last_update_success, idx,
                   setup_done, cmdVars, flowVars>>

\* ------------------------------------------------ entity service calls
MaxCommands == 1         \* service calls in one behaviour
MaxWrites == 3           \* HTTP writes of one call that can go through

\* ATTR_TEMPERATURE values a caller may pass: 9.0 .. 31.5 in steps of 0.5
Temperatures == {[whole |-> w, tenth |-> t] : w \in 9..31, t \in {0, 5}}

\* percentage values a caller may pass
Percentages == {0, 8, 9, 50, 100}

\* humidity values a caller may pass
Humidities == {[whole |-> -6, tenth |-> 5], [whole |-> 45, tenth |-> 0],
               [whole |-> 150, tenth |-> 5]}

HvacModes == {"heat", "fan_only", "off"}

\* climate.py:29  _attr_fan_modes, with int(fan_mode)
fan_modes == [l \in {"1", "2", "3", "4", "5", "6", "7"} |->
                 CASE l = "1" -> 1 [] l = "2" -> 2 [] l = "3" -> 3 [] l = "4" -> 4
                   [] l = "5" -> 5 [] l = "6" -> 6 [] l = "7" -> 7]

\* select.py:26-31  _attr_options, and a label that is none of them
SelectOptions ==
    {"supply_ventilation", "recirculation", "mixed", "supply_valve", "other"}

min_temp == 10

max_temp == 30

Tenths(x) == x.whole * 10 + x.tenth

\* int(x) * 10: the half degree is dropped before the scaling
IntTimesTen_whole(x) == x.whole * 10

\* int(x * 10) of a float with one decimal
IntTimesTen(x) == Tenths(x)

\* int(x): truncation towards zero
IntOf(x) == IF x.whole < 0 /\ x.tenth > 0 THEN x.whole + 1 ELSE x.whole

Max(a, b) == IF a >= b THEN a ELSE b

Min(a, b) == IF a <= b THEN a ELSE b

\* climate.py:84  max(self._attr_min_temp, min(self._attr_max_temp, t))
ClampTemperature(x) ==
    DivTen(Max(min_temp * 10, Min(max_temp * 10, Tenths(x))))

\* fan.py:75, 100  min(6, max(0, round(percentage / 16.67))); no percentage
\* is halfway between two speeds
PercentageToSpeed(percentage) ==
    Min(6, Max(0, (200 * percentage + 1667) \div 3334))

\* the entity's Device object is the one in coordinator.devices: it was
\* bound at setup or by the last notification and the list was not
\* replaced since
Aliased(id) ==
    /\ ent[id].exists
    /\ Len(same_devices(devices, id)) > 0
    /\ pc = "idle" \/ (pc = "notify" /\ pass.lib = "raise")

NoCmd ==
    [op |-> "none", id |-> 0, input |-> {}, calls |-> <<>>, error |-> "none",
     refresh |-> FALSE, count |-> 0]

\* one service call in progress: the model of the Device object, the calls
\* made to the client so far, the HTTP writes the network still lets through,
\* whether the client's set_heat_temp rejects -1000, the exception raised
Run(e, left, strict) ==
    [model |-> e.device, calls |-> <<>>, left |-> left, strict |-> strict,
     error |-> "none"]

Call(fn, params, result) == [fn |-> fn, params |-> params, result |-> result]

\* PUT /devices/{id}/params: on success the Device object's model is
\* replaced by the one parsed from the response, which carries the written
\* values
put_params(s, fn, params) ==
    IF s.error # "none" THEN s
    ELSE IF s.left = 0
    THEN [s EXCEPT !.calls = Append(s.calls, Call(fn, params, "failed")),
                   !.error = "network"]
    ELSE [model |-> [s.model EXCEPT !.settings =
                        [val |-> [k \in DOMAIN s.model.settings.val |->
                                     IF k \in DOMAIN params THEN params[k]
                                     ELSE s.model.settings.val[k]],
                         nul |-> s.model.settings.nul]],
          calls |-> Append(s.calls, Call(fn, params, "ok")),
          left  |-> s.left - 1,
          strict |-> s.strict,
          error |-> "none"]

\* a client call that validates its argument before it writes
validated(s, fn, params, valid) ==
    IF s.error # "none" THEN s
    ELSE IF ~valid
    THEN [s EXCEPT !.calls = Append(s.calls, Call(fn, params, "rejected")),
                   !.error = "value"]
    ELSE put_params(s, fn, params)

\* Device.set_heat_temp: ValueError "... not between 100 and 300"
set_heat_temp(s, temp) ==
    validated(s, "set_heat_temp", [u_temp_room |-> temp],
              temp \in 100..300 \/ (temp = HEATER_DISABLE_TEMP /\ ~s.strict))

set_fan_speed(s, speed) ==
    validated(s, "set_fan_speed", [u_fan_speed |-> speed], speed \in 0..6)

set_power(s, on) == put_params(s, "set_power", [u_pwr_on |-> on])

set_params(s, params) == put_params(s, "_set_params", params)

\* try: set_heat_temp(-1000)  except ValueError: _set_params(u_temp_room=-1000)
heat_off_or_raw(s) ==
    LET r == set_heat_temp(s, HEATER_DISABLE_TEMP)
    IN IF s.error = "none" /\ r.error = "value"
       THEN set_params([r EXCEPT !.error = "none"],
                       [u_temp_room |-> HEATER_DISABLE_TEMP])
       ELSE r

\* what a service call leaves: the run, whether it reached
\* coordinator.async_request_refresh(), the entity attributes
Done(s, refresh, attrs) == [s |-> s, refresh |-> refresh, attrs |-> attrs]

\* async_set_hvac_mode without the early return for the mode the entity
\* already displays
async_set_hvac_mode_always(e, hvac_mode, s) ==
    LET a == e.attrs["climate"]
        saved_target_temp ==
            ClampTemperature(IF a.target_temperature = {} THEN Float(22)
                             ELSE CHOOSE t \in a.target_temperature : TRUE)
        heat == set_heat_temp(s, IntTimesTen(saved_target_temp))
    IN IF ~e.device.settings.val.u_pwr_on THEN Done(s, FALSE, e.attrs)
       ELSE IF hvac_mode = "heat"
       THEN Done(heat, TRUE,
                 IF heat.error = "none"
                 THEN [e.attrs EXCEPT !["climate"].target_temperature =
                                          {saved_target_temp}]
                 ELSE e.attrs)
       ELSE IF hvac_mode = "fan_only"
       THEN Done(heat_off_or_raw(s), TRUE, e.attrs)
       ELSE Done(s, FALSE, e.attrs)

\* climate.py:60-110  AtmeexClimateEntity.async_set_hvac_mode
async_set_hvac_mode(e, hvac_mode, s) ==
    LET a == e.attrs["climate"]
        saved_target_temp ==
            ClampTemperature(IF a.target_temperature = {} THEN Float(22)
                             ELSE CHOOSE t \in a.target_temperature : TRUE)
        heat == set_heat_temp(s, IntTimesTen(saved_target_temp))
    IN IF ~e.device.settings.val.u_pwr_on THEN Done(s, FALSE, e.attrs)
       ELSE IF a.hvac_mode = hvac_mode THEN Done(s, FALSE, e.attrs)
       ELSE IF hvac_mode = "heat"
       THEN Done(heat, TRUE,
                 IF heat.error = "none"
                 THEN [e.attrs EXCEPT !["climate"].target_temperature =
                                          {saved_target_temp}]
                 ELSE e.attrs)
       ELSE IF hvac_mode = "fan_only"
       THEN Done(heat_off_or_raw(s), TRUE, e.attrs)
       ELSE Done(s, FALSE, e.attrs)

\* set_fan_mode without the guard of lines 115-117: the speed is written to
\* a device that is off as well
async_set_fan_mode_unguarded(e, fan_mode, s) ==
    Done(set_fan_speed(s, fan_modes[fan_mode] - 1), FALSE, e.attrs)

\* climate.py:112-118  AtmeexClimateEntity.async_set_fan_mode
async_set_fan_mode(e, fan_mode, s) ==
    IF ~e.device.settings.val.u_pwr_on THEN Done(s, FALSE, e.attrs)
    ELSE Done(set_fan_speed(s, fan_modes[fan_mode] - 1), FALSE, e.attrs)

\* climate.py:120-133  AtmeexClimateEntity.async_set_temperature; the
\* temperature is {} when the call carries none
async_set_temperature(e, temperature, s) ==
    IF temperature = {} THEN Done(s, FALSE, e.attrs)
    ELSE IF ~e.device.settings.val.u_pwr_on THEN Done(s, FALSE, e.attrs)
    ELSE Done(set_heat_temp(s, IntTimesTen(CHOOSE t \in temperature : TRUE)),
              FALSE, e.attrs)

\* climate.py:135-150  AtmeexClimateEntity.async_turn_on
climate_async_turn_on(e, s) ==
    LET st == e.device.settings.val
    IN IF ~st.u_pwr_on
       THEN Done(set_params(s, [u_pwr_on |-> TRUE, u_damp_pos |-> 0,
                                u_fan_speed |-> IF st.u_fan_speed = 0 THEN 1
                                                ELSE st.u_fan_speed]),
                 TRUE, e.attrs)
       ELSE Done(set_params(s, [u_damp_pos |-> 0]), TRUE, e.attrs)

\* climate.py:152-159  AtmeexClimateEntity.async_turn_off
climate_async_turn_off(e, s) ==
    Done(set_params(s, [u_pwr_on |-> FALSE, u_damp_pos |-> 2]), TRUE, e.attrs)

\* fan.py:58-85  AtmeexFanEntity.async_turn_on; the percentage is {} when
\* the call carries none
fan_async_turn_on(e, percentage, s) ==
    LET s1 == IF ~s.model.settings.val.u_pwr_on THEN set_power(s, TRUE) ELSE s
        s2 == IF percentage = {} THEN s1
              ELSE set_fan_speed(s1, PercentageToSpeed(CHOOSE x \in percentage : TRUE))
    IN Done(heat_off_or_raw(s2), TRUE, e.attrs)

\* fan.py:87-91  AtmeexFanEntity.async_turn_off
fan_async_turn_off(e, s) == Done(set_power(s, FALSE), TRUE, e.attrs)

\* fan.py:93-107  AtmeexFanEntity.async_set_percentage
async_set_percentage(e, percentage, s) ==
    IF percentage = 0 THEN fan_async_turn_off(e, s)
    ELSE LET s1 == set_fan_speed(s, PercentageToSpeed(percentage))
             s2 == IF s1.error = "none" /\ ~s1.model.settings.val.u_pwr_on
                   THEN set_power(s1, TRUE) ELSE s1
         IN Done(s2, TRUE, e.attrs)

\* switch.py:32-72  BaseAtmeexSwitch._set_custom_param
set_custom_param(s, param_name, value) ==
    put_params(s, "_set_custom_param", (param_name :> value))

\* switch.py:97-107, 148-158, 199-209  async_turn_on / async_turn_off of
\* the three switches
switch_async_turn(e, param_name, value, s) ==
    Done(set_custom_param(s, param_name, value), TRUE, e.attrs)

\* number.py:54-64  AtmeexHumidityTargetNumberEntity.async_set_native_value
async_set_native_value(e, value, s) ==
    Done(set_params(s, [u_hum_stg |-> Max(0, Min(100, IntOf(value)))]),
         TRUE, e.attrs)

\* the selector writing the current fan speed as it is, a stopped fan
\* included, where lines 83, 91 and 100 start it at speed 1
async_select_option_keep_fan(e, option, s) ==
    LET st == e.device.settings.val
        fan_speed == st.u_fan_speed
    IN IF ~st.u_pwr_on THEN Done(s, FALSE, e.attrs)
       ELSE CASE option = "supply_ventilation" ->
                   Done(set_params(s, [u_damp_pos |-> 0, u_fan_speed |-> fan_speed]),
                        TRUE, e.attrs)
              [] option = "recirculation" ->
                   Done(set_params(s, [u_damp_pos |-> 2, u_fan_speed |-> fan_speed,
                                       u_temp_room |-> HEATER_DISABLE_TEMP]),
                        TRUE, e.attrs)
              [] option = "mixed" ->
                   Done(set_params(s, [u_damp_pos |-> 1, u_fan_speed |-> fan_speed]),
                        TRUE, e.attrs)
              [] option = "supply_valve" ->
                   Done(set_params(s, [u_damp_pos |-> 0, u_fan_speed |-> 0,
                                       u_temp_room |-> HEATER_DISABLE_TEMP]),
                        TRUE, e.attrs)
              [] OTHER -> Done(s, FALSE, e.attrs)

\* select.py:62-117  AtmeexVentilationModeSelectEntity.async_select_option
async_select_option(e, option, s) ==
    LET st == e.device.settings.val
        fan_speed == IF st.u_fan_speed > 0 THEN st.u_fan_speed ELSE 1
    IN IF ~st.u_pwr_on THEN Done(s, FALSE, e.attrs)
       ELSE CASE option = "supply_ventilation" ->
                   Done(set_params(s, [u_damp_pos |-> 0, u_fan_speed |-> fan_speed]),
                        TRUE, e.attrs)
              [] option = "recirculation" ->
                   Done(set_params(s, [u_damp_pos |-> 2, u_fan_speed |-> fan_speed,
                                       u_temp_room |-> HEATER_DISABLE_TEMP]),
                        TRUE, e.attrs)
              [] option = "mixed" ->
                   Done(set_params(s, [u_damp_pos |-> 1, u_fan_speed |-> fan_speed]),
                        TRUE, e.attrs)
              [] option = "supply_valve" ->
                   Done(set_params(s, [u_damp_pos |-> 0, u_fan_speed |-> 0,
                                       u_temp_room |-> HEATER_DISABLE_TEMP]),
                        TRUE, e.attrs)
              [] OTHER -> Done(s, FALSE, e.attrs)

\* the write of a service call lands in a copy of the record, never in the
\* Device object the coordinator's list holds
ServiceCall_copy(op, id, input, done) ==
    /\ cmd' = [op |-> op, id |-> id, input |-> input, calls |-> done.s.calls,
               error |-> done.s.error,
               refresh |-> done.refresh /\ done.s.error = "none",
               count |-> cmd.count + 1]
    /\ ent' = [ent EXCEPT ![id] = [ent[id] EXCEPT !.device = done.s.model,
                                                  !.attrs = done.attrs]]
    /\ UNCHANGED devices
    /\ UNCHANGED <<entry_data, api_auth, last_update_success, pc, idx, pass,
                   setup_done, flowVars>>

\* a service call on an entity of device id ran to its end or to an
\* exception: the Device object the entity is bound to has the model the
\* writes left, and so has coordinator.devices when it holds that object
ServiceCall(op, id, input, done) ==
    /\ cmd' = [op |-> op, id |-> id, input |-> input, calls |-> done.s.calls,
               error |-> done.s.error,
               refresh |-> done.refresh /\ done.s.error = "none",
               count |-> cmd.count + 1]
    /\ ent' = [ent EXCEPT ![id] = [ent[id] EXCEPT !.device = done.s.model,
                                                  !.attrs = done.attrs]]
    /\ devices' = IF Aliased(id)
                  THEN [i \in DOMAIN devices |->
                           IF devices[i].id = id THEN done.s.model ELSE devices[i]]
                  ELSE devices
    /\ UNCHANGED <<entry_data, api_auth, last_update_success, pc, idx, pass,
                   setup_done, flowVars>>

\* the entities a service can be called on, and the ways the network and
\* the client can treat the call
Callable(id) == ent[id].exists /\ cmd.count < MaxCommands

Runs(id) ==
    {Run(ent[id], left, strict) : left \in 0..MaxWrites, strict \in BOOLEAN}

ClimateSetHvacMode ==
    \E id \in DeviceIds, hvac_mode \in HvacModes :
       /\ Callable(id)
       /\ \E s \in Runs(id) :
             ServiceCall("climate.set_hvac_mode", id, hvac_mode,
                         async_set_hvac_mode(ent[id], hvac_mode, s))

ClimateSetFanMode ==
    \E id \in DeviceIds, fan_mode \in DOMAIN fan_modes :
       /\ Callable(id)
       /\ \E s \in Runs(id) :
             ServiceCall("climate.set_fan_mode", id, fan_mode,
                         async_set_fan_mode(ent[id], fan_mode, s))

ClimateSetTemperature ==
    \E id \in DeviceIds, temperature \in {{}} \cup {{t} : t \in Temperatures} :
       /\ Callable(id)
       /\ \E s \in Runs(id) :
             ServiceCall("climate.set_temperature", id, temperature,
                         async_set_temperature(ent[id], temperature, s))

ClimateTurnOn ==
    \E id \in DeviceIds :
       /\ Callable(id)
       /\ \E s \in Runs(id) :
             ServiceCall("climate.turn_on", id, {}, climate_async_turn_on(ent[id], s))

ClimateTurnOff ==
    \E id \in DeviceIds :
       /\ Callable(id)
       /\ \E s \in Runs(id) :
             ServiceCall("climate.turn_off", id, {}, climate_async_turn_off(ent[id], s))

FanTurnOn ==
    \E id \in DeviceIds, percentage \in {{}} \cup {{x} : x \in Percentages} :
       /\ Callable(id)
       /\ \E s \in Runs(id) :
             ServiceCall("fan.turn_on", id, percentage,
                         fan_async_turn_on(ent[id], percentage, s))

FanTurnOff ==
    \E id \in DeviceIds :
       /\ Callable(id)
       /\ \E s \in Runs(id) :
             ServiceCall("fan.turn_off", id, {}, fan_async_turn_off(ent[id], s))

\* the percentage is one of Percentages or the one the entity displays
FanSetPercentage ==
    \E id \in DeviceIds :
       /\ Callable(id)
       /\ \E percentage \in Percentages \cup {ent[id].attrs["fan"].percentage} :
             \E s \in Runs(id) :
                ServiceCall("fan.set_percentage", id, percentage,
                            async_set_percentage(ent[id], percentage, s))

SwitchTurn ==
    \E id \in DeviceIds, param_name \in {"u_auto", "u_night", "u_cool_mode"},
       value \in BOOLEAN :
       /\ Callable(id)
       /\ \E s \in Runs(id) :
             ServiceCall("switch.turn", id, <<param_name, value>>,
                         switch_async_turn(ent[id], param_name, value, s))

NumberSetValue ==
    \E id \in DeviceIds, value \in Humidities :
       /\ Callable(id)
       /\ \E s \in Runs(id) :
             ServiceCall("number.set_native_value", id, value,
                         async_set_native_value(ent[id], value, s))

SelectOption ==
    \E id \in DeviceIds, option \in SelectOptions :
       /\ Callable(id)
       /\ \E s \in Runs(id) :
             ServiceCall("select.select_option", id, option,
                         async_select_option(ent[id], option, s))

\* ------------------------------------ config_flow.py: async_step_user
MaxSubmissions == 2      \* submissions of the form in one behaviour

\* config_flow.py:13-21  the keys of ERROR_TRANSLATIONS
ERROR_TRANSLATIONS ==
    {"authentication_failed", "no_devices_found", "connection_error",
     "timeout_error", "invalid_auth", "invalid_input", "unknown_error"}

\* the exceptions a call of the client may raise: the class and what the
\* handlers of lines 216-233 find in the message
Exceptions ==
    {[class |-> "ConnectionError", msg |-> "none"],
     [class |-> "TimeoutError", msg |-> "none"],
     [class |-> "ValueError", msg |-> "invalid"],
     [class |-> "ValueError", msg |-> "none"],
     [class |-> "Exception", msg |-> "auth"],
     [class |-> "Exception", msg |-> "connection"],
     [class |-> "Exception", msg |-> "none"]}

NoException == [class |-> "none", msg |-> "none"]

NoFlow ==
    [step |-> "form", submissions |-> 0, listing |-> "none",
     raised |-> NoException, token |-> {}, device_count |-> 0,
     raw |-> "none", raw_api_device_count |-> 0, errors |-> {},
     shown |-> "none", entry |-> {}]

\* lines 210-233: the handlers of the outer try
outer_except(exc) ==
    CASE exc.class = "ConnectionError" -> "connection_error"
      [] exc.class = "TimeoutError" -> "timeout_error"
      [] exc.class = "ValueError" ->
           IF exc.msg = "invalid" THEN "invalid_auth" ELSE "invalid_input"
      [] OTHER ->
           IF exc.msg = "auth" THEN "invalid_auth"
           ELSE IF exc.msg = "connection" THEN "connection_error"
           ELSE "unknown_error"

\* lines 236-241: the key is replaced by its message, the form is shown
show_form(f, key) ==
    [f EXCEPT !.step = "done", !.errors = {key},
              !.shown = IF key \in ERROR_TRANSLATIONS THEN "message" ELSE "key"]

\* lines 37-50: the form is submitted, the client is constructed
FlowSubmit ==
    /\ flow.step = "form"
    /\ \/ \E exc \in Exceptions :
             flow' = show_form([NoFlow EXCEPT !.submissions = flow.submissions + 1,
                                              !.raised = exc],
                               outer_except(exc))
       \/ flow' = [NoFlow EXCEPT !.step = "listing",
                                 !.submissions = flow.submissions + 1]
    /\ UNCHANGED <<coordVars, entVars, cmdVars>>

\* lines 57-66: get_devices() returns a list or raises; either way the
\* client may or may not hold an access token afterwards, and a list of
\* devices comes only with a token
FlowGetDevices ==
    /\ flow.step = "listing"
    /\ \E token \in {{}} \cup {{p} : p \in TokenPairs} :
          \/ \E exc \in Exceptions :
                flow' = [flow EXCEPT !.step = "token", !.listing = "raised",
                                     !.raised = exc, !.token = token,
                                     !.device_count = 0]
          \/ \E n \in 0..MaxDevices :
                /\ n > 0 => token # {}
                /\ flow' = [flow EXCEPT !.step = "token", !.listing = "returned",
                                        !.token = token, !.device_count = n]
    /\ UNCHANGED <<coordVars, entVars, cmdVars>>

\* the check of the token made only after a listing call that raised
token_missing_raised(f) == f.token = {} /\ f.listing = "raised"

\* line 69: not hasattr(atmeex.auth, '_access_token') or not the token
token_missing(f) == f.token = {}

\* lines 69-82
FlowTokenCheck ==
    /\ flow.step = "token"
    /\ flow' = IF token_missing(flow)
               THEN [flow EXCEPT !.step = "done",
                                 !.errors = {"authentication_failed"},
                                 !.shown = "key"]
               ELSE [flow EXCEPT !.step = IF flow.device_count = 0 THEN "raw"
                                          ELSE "entry"]
    /\ UNCHANGED <<coordVars, entVars, cmdVars>>

\* lines 82-148: the library listed nothing, one GET /devices on the HTTP
\* client if the client object exposes one
FlowRawCheck ==
    /\ flow.step = "raw"
    /\ \/ flow' = [flow EXCEPT !.step = "entry", !.raw = "no_client"]
       \/ \E r \in {"raised", "status", "not_list"} :
             flow' = [flow EXCEPT !.step = "entry", !.raw = r]
       \/ \E n \in 0..MaxDevices :
             flow' = [flow EXCEPT !.step = "entry", !.raw = "list",
                                  !.raw_api_device_count = n]
    /\ UNCHANGED <<coordVars, entVars, cmdVars>>

\* lines 152-208
FlowCreateEntry ==
    /\ flow.step = "entry"
    /\ flow' = IF flow.device_count = 0 /\ flow.raw_api_device_count = 0
               THEN show_form(flow, "no_devices_found")
               ELSE [flow EXCEPT !.step = "done", !.entry = flow.token]
    /\ UNCHANGED <<coordVars, entVars, cmdVars>>

\* the form shown with an error is submitted again
FlowResubmit ==
    /\ flow.step = "done"
    /\ flow.entry = {}
    /\ flow.submissions < MaxSubmissions
    /\ flow' = [flow EXCEPT !.step = "form"]
    /\ UNCHANGED <<coordVars, entVars, cmdVars>>

\* async_setup_entry: restore_tokens copies the stored pair into the client
Init ==
    /\ devices = <<>>
    /\ entry_data = <<"t1", "t1">>
    /\ api_auth = entry_data
    /\ last_update_success = TRUE
    /\ pc = "idle"
    /\ idx = 1
    /\ pass = NoPass
    /\ setup_done = FALSE
    /\ ent = [id \in DeviceIds |-> NoEntity]
    /\ cmd = NoCmd
    /\ flow = NoFlow

Next ==
    \/ StartRefresh(Listings(AllRawEntries))
    \/ RawRefetch(Listings(AllRawEntries))
    \/ SupplementaryFetch(Responses)
    \/ PersistTokens
    \/ TokenRotation
    \/ Notify

Spec == Init /\ [][Next]_vars

\* the coordinator together with the entities of the platforms
\* the first device in each of its well-formed shapes, the second in one
EntityEntries ==
    {e \in RawEntries(1) : WellFormed(e)}
    \cup {e \in RawEntries(2) : WellFormed(e) /\ e.val.settings.val.u_temp_room = 215}

EntityResponses ==
    {r \in Responses :
        \/ r.kind = "raise"
        \/ r.status = 200 /\ Keys(r.body) = {"condition", "online"}
                          /\ (HasVal(r.body, "condition") => Truthy(r.body, "condition"))}

NextEntities ==
    \/ StartRefresh(Listings(EntityEntries))
    \/ RawRefetch(Listings(EntityEntries))
    \/ SupplementaryFetch(EntityResponses)
    \/ PersistTokens
    \/ SetupPlatforms
    \/ Notify

SpecEntities == Init /\ [][NextEntities]_vars

\* the entities of one device under service calls
\* the listing entry that reports the settings the entity's Device object holds
RawOf(device) ==
    Dict(With(TopLevel(device.id), "settings",
              Dict([id |-> 7, device_id |-> device.id] @@ device.settings.val, {})),
         {"condition"})

\* a powered device as the "supply valve" mode leaves it: damper open, fan
\* stopped, heater disabled
SettingsValve(id) ==
    [id |-> 7, device_id |-> id, u_pwr_on |-> TRUE, u_fan_speed |-> 0,
     u_damp_pos |-> 0, u_temp_room |-> -1000, u_cool_mode |-> FALSE,
     u_hum_stg |-> 40, u_auto |-> FALSE, u_night |-> FALSE]

CommandEntries ==
    {e \in RawEntries(1) : WellFormed(e)}
    \cup {Dict(With(TopLevel(1), "settings", Dict(SettingsValve(1), {})),
               {"condition"})}

\* what the cloud may list: the device as it was first seen, or with the
\* settings last written to it
CommandListings ==
    {<<e>> : e \in CommandEntries}
    \cup (IF ent[1].exists THEN {<<RawOf(ent[1].device)>>} ELSE {})

CommandResponses == {r \in Responses : r.kind = "raise"}

NextCommands ==
    \/ StartRefresh(CommandListings)
    \/ RawRefetch(CommandListings)
    \/ SupplementaryFetch(CommandResponses)
    \/ PersistTokens
    \/ SetupPlatforms
    \/ Notify
    \/ ClimateSetHvacMode
    \/ ClimateSetFanMode
    \/ ClimateSetTemperature
    \/ ClimateTurnOn
    \/ ClimateTurnOff
    \/ FanTurnOn
    \/ FanTurnOff
    \/ FanSetPercentage
    \/ SwitchTurn
    \/ NumberSetValue
    \/ SelectOption

SpecCommands == Init /\ [][NextCommands]_vars

\* the setup flow
NextFlow ==
    \/ FlowSubmit
    \/ FlowGetDevices
    \/ FlowTokenCheck
    \/ FlowRawCheck
    \/ FlowCreateEntry
    \/ FlowResubmit

SpecFlow == Init /\ [][NextFlow]_vars

\* ---------------------------------------------------------------- claims
Ids(devs) == [i \in DOMAIN devs |-> devs[i].id]

Present(id) == Len(same_devices(devices, id)) > 0

PassCompleted == pc = "notify" /\ pass.token_step

\* C1: in a refresh cycle the token pair is written into the config entry
\* exactly once when the client's pair differs from the stored pair in either
\* token, and not at all when both tokens equal the stored ones; nothing
\* else writes the stored pair.
C1_TokenWritePerChange ==
    [][IF pc = "tokens" /\ pc' = "notify"
       THEN /\ pass'.writes = (IF entry_data = api_auth THEN 0 ELSE 1)
            /\ entry_data' = api_auth
       ELSE /\ entry_data' = entry_data
            /\ pass'.writes \in {pass.writes, 0}]_vars

\* a cycle that wrote the pair after only the refresh token had changed
C1_Witness ==
    /\ pc = "notify"
    /\ pass.writes = 1
    /\ entry_data = api_auth
    /\ entry_data = <<"t1", "t2">>

\* C2: on a coordinator notification, the entities of a device id that is
\* not in the coordinator's list (every kind alike) become unavailable, keep
\* the record they were bound to, and do not run _update_state, the one
\* reader of the record's fields (the ids compared to locate it apart).
C2_AbsentDeviceUnavailable ==
    [][(pc = "notify" /\ pc' = "idle") =>
          \A id \in DeviceIds :
             (ent[id].exists /\ ~Present(id)) =>
                /\ ent'[id].device = ent[id].device
                /\ \A k \in DOMAIN ent[id].attrs :
                      ~ent'[id].attrs[k].available
                /\ ~ent'[id].updated]_vars

\* the entities of a device have been notified of a list without it
C2_Witness ==
    /\ pc = "idle"
    /\ \E id \in DeviceIds :
          /\ ent[id].exists
          /\ ~Present(id)
          /\ ControlKinds \cup TelemetryKinds \cup {"online", "no_water"}
                \subseteq DOMAIN ent[id].attrs
          /\ \A k \in DOMAIN ent[id].attrs : ~ent[id].attrs[k].available
          /\ ~ent[id].updated

\* C3: once notified, every entity whose device is in the coordinator's list
\* shows exactly what _update_state computes from that record alone
\* (value, mode, on/off, target temperature, availability).
C3_DisplayedFromRecordAlone ==
    (pc = "idle" /\ setup_done) =>
       \A id \in DeviceIds :
          (ent[id].exists /\ Present(id)) =>
             \A k \in DOMAIN ent[id].attrs :
                ent[id].attrs[k] =
                   update_state(k, same_devices(devices, id)[1], InitialAttrs)

\* the record the claim expects for a raw entry: defaults substituted
DefaultedModel(e) == DeviceModel_fromdict(fix_device_data_for_parsing(e)).model

\* C4: when the structured listing returned nothing and the raw re-fetch
\* returned M > 0 entries, the list after the pass holds M records, one per
\* raw entry, with the documented defaults in place of null or absent fields.
C4_RawRecoveryYieldsAll ==
    (PassCompleted /\ pass.lib = "empty" /\ pass.raw = "ok"
       /\ Len(pass.upstream) > 0) =>
       /\ Len(devices) = Len(pass.upstream)
       /\ \A i \in DOMAIN devices :
             /\ devices[i].id = DefaultedModel(pass.upstream[i]).id
             /\ devices[i].settings = DefaultedModel(pass.upstream[i]).settings

\* C5: a listing of N well-formed entries gives a list of exactly N records
\* (in the listing's order), and no record of the coordinator's list ever
\* has a null Settings field.
C5_CountAndSettingsPopulated ==
    /\ \A i \in DOMAIN devices :
          /\ devices[i].settings.nul = {}
          /\ DOMAIN devices[i].settings.val = SettingsFields
    /\ ((pass.lib = "ok" \/ pass.raw = "ok")
          /\ \A i \in DOMAIN pass.upstream : WellFormed(pass.upstream[i])) =>
          Ids(devices) = [i \in DOMAIN pass.upstream |-> pass.upstream[i].val.id]

\* two well-formed entries recovered by the raw re-fetch
C5_Witness ==
    /\ PassCompleted
    /\ pass.raw = "ok"
    /\ Len(pass.upstream) = 2
    /\ \A i \in DOMAIN pass.upstream : WellFormed(pass.upstream[i])
    /\ Len(devices) = 2

\* C6: a device without Condition gets one single-device fetch; a non-null
\* condition in the response is attached and an online flag in the response
\* is stored; a device with Condition gets no fetch.
C6_SupplementaryFetchAttaches ==
    [][(pc = "fetch" /\ idx' = idx + 1) =>
          LET device == devices[idx]
              after  == devices'[idx]
          IN IF device.condition # {}
             THEN pass'.resp = pass.resp /\ after = device
             ELSE /\ device.id \in DOMAIN pass'.resp
                  /\ LET r == pass'.resp[device.id]
                     IN (r.kind = "answer" /\ r.status = 200) =>
                           /\ HasVal(r.body, "condition") => after.condition # {}
                           /\ HasVal(r.body, "online") =>
                                 after.online = {r.body.val.online}
                           /\ IsNone(r.body, "online") => after.online = {}]_vars

Failed == {id \in DOMAIN pass.resp : IsFailure(pass.resp[id])}

\* C7: failed single-device fetches do not end the pass: it reaches the
\* token step, the list holds the devices of the listing, each failed device
\* has no Condition, and every device that lacked Condition got its fetch.
C7_FetchFailureSwallowed ==
    (pc = "notify" /\ pass.lib # "raise") =>
       /\ pass.token_step
       /\ last_update_success
       /\ Ids(devices) = Ids(pass.base)
       /\ \A i \in DOMAIN devices :
             devices[i].id \in Failed => devices[i].condition = {}
       /\ DOMAIN pass.resp =
             {pass.base[i].id : i \in {j \in DOMAIN pass.base :
                                          pass.base[j].condition = {}}}

\* the first device's fetch failed, the second's brought a condition
C7_Witness ==
    /\ PassCompleted
    /\ Len(devices) = 2
    /\ devices[1].id \in Failed
    /\ devices[2].id \in DOMAIN pass.resp
    /\ devices[2].condition # {}

\* the payload c with every null numeric field replaced by zero
ZeroedCondition(c) ==
    ConditionModel([val |-> [k \in DOMAIN c.val \cup (c.nul \cap numeric_fields) |->
                                IF k \in DOMAIN c.val THEN c.val[k] ELSE 0],
                    nul |-> c.nul \ numeric_fields])

\* C8: a Condition delivered by the single-device fetch is stored with every
\* null numeric reading replaced by zero, so that a present Condition has no
\* null numeric field.
C8_ConditionNullsZeroed ==
    [][(pc = "fetch" /\ idx' = idx + 1 /\ devices[idx].condition = {}) =>
          LET r == pass'.resp[devices[idx].id]
          IN (r.kind = "answer" /\ r.status = 200 /\ Truthy(r.body, "condition")) =>
                devices'[idx].condition = {ZeroedCondition(r.body.val.condition)}]_vars

RECURSIVE Supplemented(_, _)
Supplemented(devs, resp) ==
    IF devs = <<>> THEN <<>>
    ELSE <<IF Head(devs).condition = {}
           THEN ApplyResponse(Head(devs), resp[Head(devs).id])
           ELSE Head(devs)>>
         \o Supplemented(Tail(devs), resp)

\* the list as a function of what the cloud answered in this pass
Reconciled(p) ==
    Supplemented(IF p.lib = "ok" \/ p.raw = "ok"
                 THEN ParsedDevices(p.upstream) ELSE <<>>,
                 p.resp)

\* C9 as stated: the list a completed pass leaves is a function of the
\* cloud's answers in that pass alone, whatever the previous list was, and
\* the default substitution applied to its own output changes nothing.
C9_DeterministicAndIdempotent ==
    /\ PassCompleted => devices = Reconciled(pass)
    /\ \A i \in DOMAIN pass.upstream :
          LET fixed == fix_device_data_for_parsing(pass.upstream[i])
          IN fix_device_data_for_parsing(fixed) = fixed

\* C9 amended: the list a completed pass leaves is a function of the cloud's
\* answers in that pass alone, whatever the previous list was; the default
\* substitution applied to its own output gives the same device record and
\* the same values, adds nothing but null entries for the optional settings
\* keys (night start, night stop, time zone), and is stable from then on.
C9_DeterministicFixStable ==
    /\ PassCompleted => devices = Reconciled(pass)
    /\ \A i \in DOMAIN pass.upstream :
          LET once  == fix_device_data_for_parsing(pass.upstream[i])
              twice == fix_device_data_for_parsing(once)
          IN /\ DeviceModel_fromdict(twice) = DeviceModel_fromdict(once)
             /\ SetItem(twice, "settings", once.val.settings) = once
             /\ twice.val.settings.val = once.val.settings.val
             /\ once.val.settings.nul \subseteq twice.val.settings.nul
             /\ twice.val.settings.nul \ once.val.settings.nul
                   \subseteq optional_settings_fields
             /\ fix_device_data_for_parsing(twice) = twice

\* a completed pass over a raw listing with an entry that has no settings,
\* whose second substitution adds the optional keys, next to a parsed entry
C9_Witness ==
    /\ PassCompleted
    /\ pass.lib = "empty"
    /\ pass.raw = "ok"
    /\ Len(devices) = 1
    /\ \E i \in DOMAIN pass.upstream :
          LET once == fix_device_data_for_parsing(pass.upstream[i])
          IN /\ ~Truthy(pass.upstream[i], "settings")
             /\ fix_device_data_for_parsing(once) # once

FallbackKinds ==
    {"humidity_target_sensor", "fan_speed", "damper_position",
     "firmware_version"}

\* C10 as stated: with Condition present every telemetry sensor is available
\* with a value, with Condition absent every telemetry sensor is unavailable.
C10_TelemetryFollowsCondition ==
    (pc = "idle" /\ setup_done) =>
       \A id \in DeviceIds :
          (ent[id].exists /\ Present(id)) =>
             IF ent[id].device.condition # {}
             THEN \A k \in TelemetryKinds :
                     ent[id].attrs[k].available /\ ent[id].attrs[k].native_value # {}
             ELSE \A k \in TelemetryKinds : ~ent[id].attrs[k].available

\* C10 amended: with Condition present every telemetry sensor is available
\* with a value; with Condition absent the CO2, room temperature, inlet
\* temperature and humidity sensors are unavailable without a value, and the
\* humidity target, fan speed, damper position and firmware sensors stay
\* available and show the Settings value (the record's firmware version).
C10_TelemetryWithFallback ==
    (pc = "idle" /\ setup_done) =>
       \A id \in DeviceIds :
          (ent[id].exists /\ Present(id)) =>
             LET device == ent[id].device
                 a == ent[id].attrs
             IN IF device.condition # {}
                THEN \A k \in TelemetryKinds :
                        a[k].available /\ a[k].native_value # {}
                ELSE /\ \A k \in TelemetryKinds \ FallbackKinds :
                           ~a[k].available /\ a[k].native_value = {}
                     /\ \A k \in FallbackKinds : a[k].available
                     /\ a["humidity_target_sensor"].native_value =
                           {device.settings.val.u_hum_stg}
                     /\ a["fan_speed"].native_value =
                           {device.settings.val.u_fan_speed + 1}
                     /\ a["damper_position"].native_value =
                           {PositionMap(device.settings.val.u_damp_pos)}
                     /\ a["firmware_version"].native_value = {device.fw_ver}

\* notified entities of a device without Condition, and of one with it
C10_Witness ==
    /\ pc = "idle"
    /\ \E id \in DeviceIds :
          /\ ent[id].exists /\ Present(id)
          /\ ent[id].device.condition = {}
          /\ ent[id].attrs["fan_speed"].available
          /\ ~ent[id].attrs["co2"].available
    /\ \E id \in DeviceIds :
          /\ ent[id].exists /\ Present(id)
          /\ ent[id].device.condition # {}
          /\ ent[id].attrs["co2"].available

\* ------------------------------------------------ service calls
\* the writes of the last service call that went through
Written ==
    {cmd.calls[i].params : i \in {j \in DOMAIN cmd.calls : cmd.calls[j].result = "ok"}}

\* the coordinator's list holds the device of the last service call, powered
\* as it was when written, with every value the call wrote
Echoed ==
    /\ cmd.op # "none"
    /\ Present(cmd.id)
    /\ LET st == same_devices(devices, cmd.id)[1].settings.val
       IN /\ st.u_pwr_on
          /\ \A params \in Written : \A k \in DOMAIN params : st[k] = params[k]

\* the target temperatures the climate entity accepts: 10.0 .. 30.0 by 0.5
TargetTemperatures ==
    {t \in Temperatures : min_temp * 10 <= Tenths(t) /\ Tenths(t) <= max_temp * 10}

\* C11: after climate set_temperature(T), T in 10.0 .. 30.0 in steps of 0.5,
\* whose write went through, a coordinator notification over a list that
\* echoes the written settings leaves the climate entity displaying target
\* temperature T; after set_fan_mode(s), s in "1" .. "7", such a notification
\* leaves it displaying fan mode s.
C11_ClimateRoundTrip ==
    [][(pc = "notify" /\ pc' = "idle" /\ Echoed /\ Written # {}) =>
          /\ (cmd.op = "climate.set_temperature"
                /\ cmd.input \in {{t} : t \in TargetTemperatures})
             => ent'[cmd.id].attrs["climate"].target_temperature = cmd.input
          /\ cmd.op = "climate.set_fan_mode"
             => ent'[cmd.id].attrs["climate"].fan_mode = cmd.input]_vars

\* set_temperature(18.5) was written and a later notification shows 18.5,
\* a value no listing carries unless it echoes the write
C11_Witness ==
    /\ cmd.op = "climate.set_temperature"
    /\ cmd.input = {[whole |-> 18, tenth |-> 5]}
    /\ Written = {[u_temp_room |-> 185]}
    /\ pc = "idle"
    /\ ent[cmd.id].attrs["climate"].target_temperature = cmd.input

\* the option the four rules give for a damper position and a fan speed
RuleOption(damp_pos, fan_speed) ==
    CASE damp_pos = 0 /\ fan_speed = 0 -> "supply_valve"
      [] damp_pos = 2 -> "recirculation"
      [] damp_pos = 1 -> "mixed"
      [] damp_pos = 0 /\ fan_speed > 0 -> "supply_ventilation"

\* C12 as stated: after a notification the ventilation-mode selector of every
\* device in the list shows the option the four rules give for the record's
\* (damper position, fan speed) pair, whatever the other fields hold.
C12_OptionFromDamperAndFan ==
    [][(pc = "notify" /\ pc' = "idle") =>
          \A id \in DeviceIds :
             (ent[id].exists /\ Present(id)) =>
                LET st == same_devices(devices, id)[1].settings.val
                IN ent'[id].attrs["ventilation_mode"].current_option =
                      {RuleOption(st.u_damp_pos, st.u_fan_speed)}]_vars

\* C12 amended: after a notification the selector of a device whose record
\* is powered shows the option the four rules give for the record's (damper
\* position, fan speed) pair; for a record with the power flag off it shows
\* no option and is unavailable.
C12_OptionWhenPowered ==
    [][(pc = "notify" /\ pc' = "idle") =>
          \A id \in DeviceIds :
             (ent[id].exists /\ Present(id)) =>
                LET st == same_devices(devices, id)[1].settings.val
                    shown == ent'[id].attrs["ventilation_mode"]
                IN IF st.u_pwr_on
                   THEN /\ shown.current_option =
                              {RuleOption(st.u_damp_pos, st.u_fan_speed)}
                        /\ shown.available
                   ELSE /\ shown.current_option = {}
                        /\ ~shown.available]_vars

\* the selector shows "supply valve" for a powered record with the damper
\* open and the fan stopped, which only a notified write can bring about
C12_Witness ==
    /\ cmd.op = "select.select_option"
    /\ pc = "idle"
    /\ Present(cmd.id)
    /\ LET st == same_devices(devices, cmd.id)[1].settings.val
       IN st.u_pwr_on /\ st.u_damp_pos = 0 /\ st.u_fan_speed = 0
    /\ ent[cmd.id].attrs["ventilation_mode"].current_option = {"supply_valve"}

\* C13 as stated: after a notification the climate entity of every device in
\* the list shows OFF when the record's power flag is false, HEAT when it is
\* powered and u_temp_room is positive, FAN_ONLY when it is powered and
\* u_temp_room is -1000.
C13_HvacModeWithOff ==
    [][(pc = "notify" /\ pc' = "idle") =>
          \A id \in DeviceIds :
             (ent[id].exists /\ Present(id)) =>
                LET st == same_devices(devices, id)[1].settings.val
                    mode == ent'[id].attrs["climate"].hvac_mode
                IN /\ ~st.u_pwr_on => mode = "off"
                   /\ (st.u_pwr_on /\ st.u_temp_room > 0) => mode = "heat"
                   /\ (st.u_pwr_on /\ st.u_temp_room = HEATER_DISABLE_TEMP)
                      => mode = "fan_only"]_vars

\* C13 amended: after a notification the climate entity shows HEAT when the
\* record is powered and u_temp_room is positive, and FAN_ONLY otherwise:
\* when it is powered and u_temp_room is -1000 or any other non-positive
\* value, and when the power flag is false, in which case the entity is
\* unavailable as well.  It never shows OFF.
C13_HvacModeHeatOrFanOnly ==
    [][(pc = "notify" /\ pc' = "idle") =>
          \A id \in DeviceIds :
             (ent[id].exists /\ Present(id)) =>
                LET st == same_devices(devices, id)[1].settings.val
                    shown == ent'[id].attrs["climate"]
                IN /\ shown.hvac_mode =
                         IF st.u_pwr_on /\ st.u_temp_room > 0 THEN "heat"
                         ELSE "fan_only"
                   /\ shown.available = st.u_pwr_on]_vars

\* a device that was off has been turned on through the climate entity and
\* notified: powered, u_temp_room 0, shown as FAN_ONLY and available
C13_Witness ==
    /\ cmd.op = "climate.turn_on"
    /\ pc = "idle"
    /\ Present(cmd.id)
    /\ LET st == same_devices(devices, cmd.id)[1].settings.val
       IN st.u_pwr_on /\ st.u_temp_room = 0
    /\ ent[cmd.id].attrs["climate"].hvac_mode = "fan_only"
    /\ ent[cmd.id].attrs["climate"].available

\* C14: every service call that wrote to the device and ended without an
\* exception (climate set_temperature, set_fan_mode, set_hvac_mode, turn_on,
\* turn_off; fan turn_on, turn_off, set_percentage; the three switches; the
\* humidity number; the selector) has called
\* coordinator.async_request_refresh() after its last write.
C14_WriteThenRefresh ==
    (cmd.op # "none" /\ cmd.error = "none" /\ Written # {}) => cmd.refresh

\* the documented on-wire domain of each setting a call may carry
InDomain(params) ==
    /\ "u_temp_room" \in DOMAIN params =>
          params.u_temp_room \in 100..300 \cup {HEATER_DISABLE_TEMP}
    /\ "u_fan_speed" \in DOMAIN params => params.u_fan_speed \in 0..6
    /\ "u_hum_stg" \in DOMAIN params => params.u_hum_stg \in 0..100
    /\ "u_damp_pos" \in DOMAIN params => params.u_damp_pos \in {0, 1, 2}

\* C15: whatever the caller passes to a service, every value the entity
\* hands to the device client is in the documented domain: u_temp_room in
\* 100..300 or -1000, u_fan_speed in 0..6, u_hum_stg in 0..100, u_damp_pos in
\* {0, 1, 2}.
C15_ValuesInDomain ==
    \A i \in DOMAIN cmd.calls : InDomain(cmd.calls[i].params)

C18_RejectedRetriedOnce ==
    \A i \in DOMAIN cmd.calls :
       cmd.calls[i].result = "rejected" =>
          /\ i + 1 \in DOMAIN cmd.calls
          /\ cmd.calls[i + 1].fn = "_set_params"
          /\ cmd.calls[i + 1].params = cmd.calls[i].params
          /\ cmd.calls[i + 1].result = "failed" =>
                (cmd.error # "none" /\ ~cmd.refresh)
          /\ \A j \in DOMAIN cmd.calls :
                j > i + 1 => cmd.calls[j].params # cmd.calls[i].params

\* ------------------------------------------------------ setup flow
\* C19: a submission of the setup form ends with "authentication_failed",
\* and without a config entry, exactly when the client holds no access token
\* after the listing attempt, whether get_devices() returned or raised; a
\* config entry is created only when a token is held and the library listing
\* or the raw listing reported at least one device.
C19_AuthFailedIffNoToken ==
    flow.step = "done" =>
       /\ flow.listing # "none" =>
             ("authentication_failed" \in flow.errors <=> flow.token = {})
       /\ "authentication_failed" \in flow.errors =>
             (flow.entry = {} /\ flow.listing # "none")
       /\ flow.entry # {} =>
             /\ flow.token # {}
             /\ flow.entry = flow.token
             /\ flow.device_count > 0 \/ flow.raw_api_device_count > 0

\* get_devices() raised, the client holds no token: authentication failed
C19_Witness ==
    /\ flow.step = "done"
    /\ flow.listing = "raised"
    /\ flow.token = {}
    /\ flow.errors = {"authentication_failed"}
    /\ flow.entry = {}

\* C20: when get_devices() raises a connection error or a timeout, the
\* submission ends with "connection_error" or "timeout_error" respectively,
\* creates no config entry and sends no further request to the listing
\* endpoint.
C20_ListingErrorReported ==
    (/\ flow.step = "done"
     /\ flow.listing = "raised"
     /\ flow.raised.class \in {"ConnectionError", "TimeoutError"}) =>
       /\ flow.errors = {IF flow.raised.class = "ConnectionError"
                         THEN "connection_error" ELSE "timeout_error"}
       /\ flow.entry = {}
       /\ flow.raw \in {"none", "no_client"}

\* ------------------------------------------------ default substitution
\* the documented default of each required settings field
DocumentedDefaults ==
    [u_pwr_on |-> FALSE, u_fan_speed |-> 0, u_damp_pos |-> 2, u_temp_room |-> 0,
     u_hum_stg |-> 0, u_cool_mode |-> FALSE, u_auto |-> FALSE, u_night |-> FALSE]

\* every field of the dict d that carries a value carries it in f as well
Kept(d, f, except) ==
    \A k \in DOMAIN d.val \ except : HasVal(f, k) /\ f.val[k] = d.val[k]

\* C21: for every entry of a listing, fix_device_data_for_parsing gives each
\* required settings field that is null or absent its documented default
\* (power off, fan speed 0, damper 2, target temperature 0, humidity target
\* 0, cool/auto/night false), leaves every field of the entry, of its
\* settings and of its condition that carries a value as it is, and leaves
\* the dict it was given unmodified.
C21_DefaultsFilledInputKept ==
    \A i \in DOMAIN pass.upstream :
       LET d == pass.upstream[i]
           fixed == fix_device_data_for_parsing(d)
           st == fixed.val.settings
       IN /\ HasVal(fixed, "settings")
          /\ \A k \in DOMAIN DocumentedDefaults :
                /\ HasVal(st, k)
                /\ ~(Truthy(d, "settings") /\ HasVal(d.val.settings, k))
                   => st.val[k] = DocumentedDefaults[k]
          /\ Kept(d, fixed, {"settings", "condition"})
          /\ Truthy(d, "settings") => Kept(d.val.settings, st, {})
          /\ Truthy(d, "condition") =>
                (HasVal(fixed, "condition")
                   /\ Kept(d.val.condition, fixed.val.condition, {}))
          /\ device_data_after(d) = d

\* a listing with an entry whose settings carry null u_auto and u_hum_stg
\* next to values, all of which the substitution has to tell apart
C21_Witness ==
    \E i \in DOMAIN pass.upstream :
       LET d == pass.upstream[i]
           fixed == fix_device_data_for_parsing(d)
       IN /\ Truthy(d, "settings")
          /\ IsNone(d.val.settings, "u_auto")
          /\ IsNone(d.val.settings, "u_hum_stg")
          /\ d.val.settings.val.u_temp_room = 215
          /\ fixed.val.settings.val.u_auto = FALSE
          /\ fixed.val.settings.val.u_temp_room = 215
          /\ fixed # d

\* ------------------------------------------------ fan and climate entities
\* C22: after a notification the fan entity of every device in the list whose
\* record has u_fan_speed in 0..6 shows a percentage in 0..100, and for a
\* device that is on no other fan speed of 0..6 gives the percentage shown.
C22_PercentageInRange ==
    [][(pc = "notify" /\ pc' = "idle") =>
          \A id \in DeviceIds :
             (ent[id].exists /\ Present(id)) =>
                LET st == same_devices(devices, id)[1].settings.val
                    shown == ent'[id].attrs["fan"]
                IN st.u_fan_speed \in 0..6 =>
                      /\ shown.percentage \in 0..100
                      /\ shown.is_on =>
                            \A speed \in 0..6 \ {st.u_fan_speed} :
                               SpeedToPercentage(speed) # shown.percentage]_vars

\* C23: after a notification, for every powered device of the list the
\* climate entity shows FAN_ONLY exactly when the fan entity of the same
\* record shows on, whatever u_temp_room holds, 0 included.
C23_ClimateAndFanAgree ==
    [][(pc = "notify" /\ pc' = "idle") =>
          \A id \in DeviceIds :
             (ent[id].exists /\ Present(id)) =>
                LET st == same_devices(devices, id)[1].settings.val
                IN st.u_pwr_on =>
                      (ent'[id].attrs["climate"].hvac_mode = "fan_only"
                         <=> ent'[id].attrs["fan"].is_on)]_vars

\* C24: after climate turn_on has written and a notification over a list
\* that echoes the written settings has run, the device is powered and its
\* ventilation-mode selector shows supply ventilation, whatever the power
\* flag and the fan speed were before the call.
C24_TurnOnGivesSupplyVentilation ==
    [][(pc = "notify" /\ pc' = "idle" /\ Echoed /\ Written # {}
          /\ cmd.op = "climate.turn_on") =>
          /\ ent'[cmd.id].device.settings.val.u_pwr_on
          /\ ent'[cmd.id].attrs["ventilation_mode"].current_option =
                {"supply_ventilation"}]_vars

\* C25: after select_option of one of the four options has written to a
\* powered device, whatever its fan speed and damper position were, a
\* notification over a list that echoes the written settings leaves the
\* selector showing exactly the option selected.
C25_SelectorRoundTrip ==
    [][(pc = "notify" /\ pc' = "idle" /\ Echoed /\ Written # {}
          /\ cmd.op = "select.select_option") =>
          /\ cmd.input \in SelectOptions \ {"other"}
          /\ ent'[cmd.id].attrs["ventilation_mode"].current_option = {cmd.input}
          /\ ent'[cmd.id].attrs["ventilation_mode"].available]_vars

\* supply ventilation was selected on a device whose fan was stopped; the
\* write started the fan and the notified selector shows supply ventilation
C25_Witness ==
    /\ cmd.op = "select.select_option"
    /\ cmd.input = "supply_ventilation"
    /\ Written = {[u_damp_pos |-> 0, u_fan_speed |-> 1]}
    /\ pc = "idle"
    /\ Echoed
    /\ ent[cmd.id].updated
    /\ ent[cmd.id].device.settings.val.u_temp_room = HEATER_DISABLE_TEMP
    /\ ent[cmd.id].attrs["ventilation_mode"].current_option = {"supply_ventilation"}

\* the service calls that refuse to act on a device that is off
GuardedCalls ==
    {"climate.set_hvac_mode", "climate.set_fan_mode", "climate.set_temperature",
     "select.select_option"}

\* C26: while the record an entity is bound to has the power flag off,
\* climate set_hvac_mode, set_fan_mode, set_temperature and the selector's
\* select_option call nothing on the device client, request no refresh and
\* leave the record and the coordinator's list as they are; a write to a
\* device that is off comes only from the other calls (fan, climate
\* turn_on / turn_off, the switches, the humidity number).
C26_NoWriteWhileOff ==
    [][(cmd' # cmd /\ ~ent[cmd'.id].device.settings.val.u_pwr_on) =>
          /\ cmd'.op \in GuardedCalls =>
                /\ cmd'.calls = <<>>
                /\ ~cmd'.refresh
                /\ cmd'.error = "none"
                /\ devices' = devices
                /\ ent' = ent
          /\ cmd'.calls # <<>> => cmd'.op \notin GuardedCalls]_vars

\* set_temperature(21.5) was called on a device that is off: nothing was
\* sent and the record still holds its target temperature encoding 0
C26_Witness ==
    /\ cmd.op = "climate.set_temperature"
    /\ cmd.input = {[whole |-> 21, tenth |-> 5]}
    /\ cmd.calls = <<>>
    /\ ~cmd.refresh
    /\ ~ent[cmd.id].device.settings.val.u_pwr_on
    /\ ent[cmd.id].device.settings.val.u_temp_room = 0

\* C27: the entities of a device that a notification found absent from the
\* list, and so marked unavailable, are available again after the first
\* later notification whose list holds the device: every kind, the fan
\* included, the climate entity and the selector provided the record is
\* powered.
C27_AvailableAgain ==
    [][(pc = "notify" /\ pc' = "idle") =>
          \A id \in DeviceIds :
             (ent[id].exists /\ ~ent[id].updated /\ Present(id)) =>
                \A k \in DOMAIN ent[id].attrs \cap ControlKinds :
                   (k \in {"climate", "ventilation_mode"} =>
                       same_devices(devices, id)[1].settings.val.u_pwr_on)
                   => ent'[id].attrs[k].available]_vars

\* C28: for a device that is on in fan-only operation with a fan speed in
\* 0..6, set-percentage called with the percentage the fan entity displays
\* writes the fan speed the record already holds.
C28_PercentageRoundTrip ==
    [][(cmd' # cmd /\ cmd'.op = "fan.set_percentage") =>
          LET e == ent[cmd'.id]
              st == e.device.settings.val
          IN (/\ st.u_pwr_on
              /\ st.u_temp_room = -1000
              /\ st.u_fan_speed \in 0..6
              /\ e.attrs["fan"].is_on
              /\ cmd'.input = e.attrs["fan"].percentage)
             => \A i \in DOMAIN cmd'.calls :
                   cmd'.calls[i].fn = "set_fan_speed" =>
                      cmd'.calls[i].params.u_fan_speed = st.u_fan_speed]_vars

C30_ListingRaisesOrEmpty ==
    [][/\ (pc = "idle" /\ pass'.lib = "raise") =>
             /\ devices' = devices
             /\ entry_data' = entry_data
             /\ pass'.writes = 0
             /\ ~pass'.token_step
             /\ pc' = "notify"
       /\ pass.lib = "raise" =>
             /\ pc = "notify"
             /\ devices' = devices
             /\ entry_data' = entry_data
       /\ (/\ pc = "notify" /\ pc' = "idle"
           /\ pass.lib = "empty"
           /\ (pass.raw = "fail" \/ ParsedDevices(pass.upstream) = <<>>)) =>
             /\ devices = <<>>
             /\ devices' = <<>>
             /\ \A id \in DeviceIds :
                   ent[id].exists =>
                      \A k \in DOMAIN ent'[id].attrs :
                         ~ent'[id].attrs[k].available]_vars

\* an empty listing emptied the list under entities that had been set up
C30_Witness ==
    /\ pc = "idle"
    /\ setup_done
    /\ devices = <<>>
    /\ last_update_success
    /\ \E id \in DeviceIds :
          /\ ent[id].exists
          /\ ~ent[id].updated
          /\ \A k \in DOMAIN ent[id].attrs : ~ent[id].attrs[k].available

====
